---- MODULE Spec2Model ----
(***************************************************************************)
(* Model of src/api.ts: the upload operations (uploadVideo, uploadAudio),  *)
(* the status query (checkTaskStatus) and the polling loop                 *)
(* (pollTaskStatus) with its cancellation handle.                          *)
(*                                                                         *)
(* Strings are sequences of tokens, so that concatenation (\o), emptiness  *)
(* (falsy in `a || b`) and containment are what they are in the code.      *)
(***************************************************************************)
EXTENDS Integers, Sequences, FiniteSets, TLC

VARIABLES
    isCancelled,     \* pollTaskStatus: the closure's flag
    phase,           \* pollTaskStatus: where the checkStatus chain stands
    queries,         \* number of status queries issued by the polling sequence
    calls,           \* log of callback invocations of the polling sequence
    responses,       \* log of the outcomes of the status queries
    cancelCalls,     \* number of invocations of the cancellation handle
    callsAtCancel,   \* Len(calls) when the handle was first invoked, else -1
    queriesAtCancel, \* queries when the handle was first invoked, else -1
    call,            \* a direct call of an api operation that is in flight
    settled,         \* how the last direct call settled
    apiCalls,        \* number of direct calls made
    toasts,          \* log of toast notifications
    seqs,            \* two polling sequences: the closure state of each
    actor            \* the polling sequence whose handler ran last

vars == <<isCancelled, phase, queries, calls, responses, cancelCalls,
          callsAtCancel, queriesAtCancel, call, settled, apiCalls, toasts,
          seqs, actor>>

pollVars == <<isCancelled, phase, queries, calls, responses, cancelCalls,
              callsAtCancel, queriesAtCancel>>

apiVars == <<call, settled, apiCalls>>

pairVars == <<seqs, actor>>

(***************************************************************************)
(* Bounds                                                                  *)
(***************************************************************************)
MaxPolls == 3
MaxCancels == 2
MaxApiCalls == 2

(***************************************************************************)
(* Strings and JavaScript values                                           *)
(***************************************************************************)
Undefined == <<"<undefined>">>

Falsy(v) == v = Undefined \/ v = <<>>

\* a || b
OrElse(a, b) == IF Falsy(a) THEN b ELSE a

Contains(s, t) ==
    \E i \in 0..(Len(s) - Len(t)) : SubSeq(s, i + 1, i + Len(t)) = t

\* new Error(m), and the errors the platform raises
Err(m) == [isError |-> TRUE, name |-> "Error", message |-> m]

SyntaxErr == [isError |-> TRUE, name |-> "SyntaxError",
              message |-> <<"Unexpected", "token">>]

TypeErr(m) == [isError |-> TRUE, name |-> "TypeError", message |-> m]

NullDeref == TypeErr(<<"Cannot", "read", "properties", "of", "null">>)

FetchFailed == TypeErr(<<"Failed", "to", "fetch">>)

NoErr == [isError |-> FALSE, name |-> "none", message |-> <<>>]

\* a value thrown by caller code that is not an Error (throw "boom")
ThrownString == [isError |-> FALSE, name |-> "string", message |-> <<"boom">>]

(***************************************************************************)
(* HTTP responses                                                          *)
(***************************************************************************)
NoObj == [task_id |-> Undefined, status |-> Undefined, error |-> Undefined]

Obj(t, s, e) == [task_id |-> t, status |-> s, error |-> e]

StatusLines ==
    { [status |-> 200, statusText |-> <<"OK">>],
      [status |-> 404, statusText |-> <<"Not", "Found">>],
      [status |-> 500, statusText |-> <<"Internal", "Server", "Error">>] }

ErrorFields == {Undefined, <<>>, <<"M">>}

UploadObjects ==
    { Obj(t, s, e) : t \in {Undefined, <<"t1">>},
                     s \in {Undefined, <<"queued">>},
                     e \in ErrorFields }

TaskObjects ==
    { Obj(Undefined, s, e) :
        s \in {<<"queued">>, <<"running">>, <<"completed">>, <<"error">>},
        e \in ErrorFields }

Bodies(objects) ==
    { [kind |-> k, obj |-> NoObj] : k \in {"empty", "html", "null"} }
    \cup { [kind |-> "object", obj |-> o] : o \in objects }

\* what fetch settles with: a rejection, or a response of any status
FetchOutcomes(objects) ==
    { [rejected |-> TRUE, status |-> 0, statusText |-> <<>>,
       body |-> [kind |-> "empty", obj |-> NoObj]] }
    \cup { [rejected |-> FALSE, status |-> l.status,
            statusText |-> l.statusText, body |-> b] :
            l \in StatusLines, b \in Bodies(objects) }

UploadResponses == FetchOutcomes(UploadObjects)

TaskResponses == FetchOutcomes(TaskObjects)

\* response.ok
ok(resp) == resp.status \in 200..299

\* response.json(): rejects with a SyntaxError unless the body is JSON
jsonRejects(resp) == resp.body.kind \in {"empty", "html"}

(***************************************************************************)
(* Settlements of the async operations                                     *)
(***************************************************************************)
Resolve(k, o, ts) ==
    [settle |-> "resolve", kind |-> k, obj |-> o, err |-> NoErr, toasts |-> ts]

Reject(e, ts) ==
    [settle |-> "reject", kind |-> "none", obj |-> NoObj, err |-> e,
     toasts |-> ts]

ServerError(resp) ==
    <<"Server", "error:">> \o <<ToString(resp.status)>> \o resp.statusText

\* mutant of Description: the toast always shows the generic text
DescriptionGeneric(e, fallback) == fallback

\* error instanceof Error ? error.message : fallback
Description(e, fallback) == IF e.isError THEN e.message ELSE fallback

Toast(e, fallback) ==
    [title |-> <<"Upload", "Error">>, description |-> Description(e, fallback),
     variant |-> "destructive"]

\* uploadVideo's inner try: errorData = await response.json(); throw new Error(..)
\* It never completes normally: this is the value it throws.
uploadVideoInnerTry(resp) ==
    IF jsonRejects(resp) THEN SyntaxErr
    ELSE IF resp.body.kind = "null" THEN NullDeref
    ELSE Err(OrElse(resp.body.obj.error, ServerError(resp)))

\* uploadVideo's inner catch (jsonError): it catches whatever the inner try
\* threw, the Error built from errorData.error included, and throws this.
uploadVideoInnerCatch(jsonError, resp) == Err(ServerError(resp))

\* the body of uploadVideo's outer try: what it throws (NoErr: it returns)
uploadVideoTry(resp) ==
    IF resp.rejected THEN FetchFailed
    ELSE IF ~ok(resp)
         THEN uploadVideoInnerCatch(uploadVideoInnerTry(resp), resp)
    ELSE IF jsonRejects(resp) THEN SyntaxErr
    ELSE NoErr

\* mutant of uploadVideo: the resolved value loses the status field
uploadVideoDropsStatus(resp) ==
    LET e == uploadVideoTry(resp) IN
    IF e = NoErr
    THEN Resolve(resp.body.kind, [resp.body.obj EXCEPT !.status = Undefined],
                 <<>>)
    ELSE Reject(e, <<Toast(e, <<"Failed", "to", "upload", "video">>)>>)

uploadVideo(resp) ==
    LET e == uploadVideoTry(resp) IN
    IF e = NoErr
    THEN Resolve(resp.body.kind, resp.body.obj, <<>>)
    ELSE Reject(e, <<Toast(e, <<"Failed", "to", "upload", "video">>)>>)

\* the body of uploadAudio's try: what it throws (NoErr: it returns)
uploadAudioTry(resp) ==
    IF resp.rejected THEN FetchFailed
    ELSE IF jsonRejects(resp) THEN SyntaxErr
    ELSE IF ~ok(resp)
         THEN IF resp.body.kind = "null" THEN NullDeref
              ELSE Err(OrElse(resp.body.obj.error,
                              <<"Failed", "to", "upload", "audio">>))
    ELSE NoErr

uploadAudio(resp) ==
    LET e == uploadAudioTry(resp) IN
    IF e = NoErr
    THEN Resolve(resp.body.kind, resp.body.obj, <<>>)
    ELSE Reject(e, <<Toast(e, <<"Failed", "to", "upload", "audio">>)>>)

\* the body of checkTaskStatus's try: what it throws (NoErr: it returns)
checkTaskStatusTry(resp) ==
    IF resp.rejected THEN FetchFailed
    ELSE IF jsonRejects(resp) THEN SyntaxErr
    ELSE IF ~ok(resp)
         THEN IF resp.body.kind = "null" THEN NullDeref
              ELSE Err(OrElse(resp.body.obj.error,
                              <<"Failed", "to", "check", "task", "status">>))
    ELSE NoErr

\* mutant of checkTaskStatus: its catch toasts as the catch of the uploads
checkTaskStatusToasts(resp) ==
    LET e == checkTaskStatusTry(resp) IN
    IF e = NoErr
    THEN Resolve(resp.body.kind, resp.body.obj, <<>>)
    ELSE Reject(e, <<Toast(e, <<"Failed", "to", "check", "task", "status">>)>>)

\* the catch of checkTaskStatus logs and rethrows: no toast
checkTaskStatus(resp) ==
    LET e == checkTaskStatusTry(resp) IN
    IF e = NoErr
    THEN Resolve(resp.body.kind, resp.body.obj, <<>>)
    ELSE Reject(e, <<>>)

(***************************************************************************)
(* Direct calls of the api operations                                      *)
(***************************************************************************)
Ops == {"uploadVideo", "uploadAudio", "checkTaskStatus"}

NoCall == [op |-> "none", id |-> 0]

Apply(op, resp) ==
    CASE op = "uploadVideo" -> uploadVideo(resp)
      [] op = "uploadAudio" -> uploadAudio(resp)
      [] OTHER -> checkTaskStatus(resp)

ResponsesOf(op) ==
    IF op = "checkTaskStatus" THEN TaskResponses ELSE UploadResponses

Tagged(id, ts) == [i \in 1..Len(ts) |-> [call |-> id, toast |-> ts[i]]]

NoSettled ==
    [op |-> "none", id |-> 0,
     resp |-> CHOOSE r \in UploadResponses : r.rejected,
     outcome |-> Resolve("none", NoObj, <<>>)]

\* the caller invokes an operation: it runs up to its await of fetch
StartCall(op) ==
    /\ call = NoCall
    /\ apiCalls < MaxApiCalls
    /\ call' = [op |-> op, id |-> apiCalls + 1]
    /\ apiCalls' = apiCalls + 1
    /\ UNCHANGED <<settled, toasts, pollVars, pairVars>>

\* fetch settles and the operation runs to its end
SettleCall(resp) ==
    /\ call # NoCall
    /\ resp \in ResponsesOf(call.op)
    /\ LET o == Apply(call.op, resp) IN
         /\ settled' = [op |-> call.op, id |-> call.id, resp |-> resp,
                        outcome |-> o]
         /\ toasts' = toasts \o Tagged(call.id, o.toasts)
    /\ call' = NoCall
    /\ UNCHANGED <<apiCalls, pollVars, pairVars>>

\* the polling sequences of the pair, and the state of one before its
\* pollTaskStatus call
Seqs == {1, 2}

NewSeq ==
    [isCancelled |-> FALSE, phase |-> "idle", queries |-> 0, calls |-> <<>>,
     handleInvoked |-> FALSE]

InitCommon ==
    /\ isCancelled = FALSE
    /\ phase = "idle"
    /\ queries = 0
    /\ calls = <<>>
    /\ responses = <<>>
    /\ cancelCalls = 0
    /\ callsAtCancel = -1
    /\ queriesAtCancel = -1
    /\ call = NoCall
    /\ settled = NoSettled
    /\ apiCalls = 0
    /\ toasts = <<>>
    /\ seqs = [s \in Seqs |-> NewSeq]
    /\ actor = 0

InitApi == InitCommon

NextApi ==
    \/ \E op \in Ops : StartCall(op)
    \/ \E resp \in UploadResponses \cup TaskResponses : SettleCall(resp)

SpecApi == InitApi /\ [][NextApi]_vars

(***************************************************************************)
(* The polling loop                                                        *)
(***************************************************************************)
\* what a caller-supplied callback does when invoked: it may invoke the
\* cancellation handle, and it returns (throws = NoErr) or throws a value
CallbackBehaviours ==
    [cancels : BOOLEAN, throws : {NoErr, Err(<<"boom">>), ThrownString}]

Invocation(cb, o, e, b) ==
    [cb |-> cb, obj |-> o, err |-> e, threw |-> b.throws # NoErr]

\* mutant of checkStatusTry: a non-terminal status sets no timer
checkStatusTryNoTimer(o, b) ==
    IF o.settle = "reject"
    THEN [calls |-> <<>>, thrown |-> o.err, schedule |-> FALSE]
    ELSE IF o.kind = "null"
    THEN [calls |-> <<>>, thrown |-> NullDeref, schedule |-> FALSE]
    ELSE IF o.obj.status = <<"completed">>
    THEN [calls |-> <<Invocation("onComplete", o.obj, NoErr, b)>>,
          thrown |-> b.throws, schedule |-> FALSE]
    ELSE IF o.obj.status = <<"error">>
    THEN [calls |-> <<Invocation("onError", NoObj,
                        Err(OrElse(o.obj.error, <<"Task", "failed">>)), b)>>,
          thrown |-> b.throws, schedule |-> FALSE]
    ELSE [calls |-> <<Invocation("onProgress", o.obj, NoErr, b)>>,
          thrown |-> b.throws, schedule |-> FALSE]

\* the try block of checkStatus after the await, up to the first exit:
\* the callback it invokes (if any), the value it throws (NoErr: none) and
\* whether it reaches setTimeout
checkStatusTry(o, b) ==
    IF o.settle = "reject"
    THEN [calls |-> <<>>, thrown |-> o.err, schedule |-> FALSE]
    ELSE IF o.kind = "null"
    THEN [calls |-> <<>>, thrown |-> NullDeref, schedule |-> FALSE]
    ELSE IF o.obj.status = <<"completed">>
    THEN [calls |-> <<Invocation("onComplete", o.obj, NoErr, b)>>,
          thrown |-> b.throws, schedule |-> FALSE]
    ELSE IF o.obj.status = <<"error">>
    THEN [calls |-> <<Invocation("onError", NoObj,
                        Err(OrElse(o.obj.error, <<"Task", "failed">>)), b)>>,
          thrown |-> b.throws, schedule |-> FALSE]
    ELSE [calls |-> <<Invocation("onProgress", o.obj, NoErr, b)>>,
          thrown |-> b.throws, schedule |-> b.throws = NoErr]

\* mutant of AsError: the failure is always replaced by the generic Error
AsErrorGeneric(e) == Err(<<"Failed", "to", "check", "task", "status">>)

\* error instanceof Error ? error : new Error('Failed to check task status')
AsError(e) ==
    IF e.isError THEN e ELSE Err(<<"Failed", "to", "check", "task", "status">>)

\* mutant of checkStatusCatch: the catch reports without reading the flag
checkStatusCatchUnguarded(thrown, cancelled, b) ==
    IF thrown # NoErr
    THEN <<Invocation("onError", NoObj, AsError(thrown), b)>>
    ELSE <<>>

\* the catch block of checkStatus: the callback it invokes (if any)
checkStatusCatch(thrown, cancelled, b) ==
    IF thrown # NoErr /\ ~cancelled
    THEN <<Invocation("onError", NoObj, AsError(thrown), b)>>
    ELSE <<>>

\* mutant of checkStatusEnter: the flag is not checked at the top
checkStatusEnterUnchecked ==
    /\ phase' = "inflight"
    /\ queries' = queries + 1

\* the top of checkStatus: return when cancelled, else issue the query
checkStatusEnter ==
    IF isCancelled
    THEN /\ phase' = "done"
         /\ UNCHANGED queries
    ELSE /\ phase' = "inflight"
         /\ queries' = queries + 1

\* mutant of pollTaskStatus: the first checkStatus is deferred to a timer
pollTaskStatusDeferred ==
    /\ phase = "idle"
    /\ isCancelled' = FALSE
    /\ phase' = "timer"
    /\ UNCHANGED <<queries, calls, responses, cancelCalls, callsAtCancel,
                   queriesAtCancel, apiVars, pairVars, toasts>>

\* pollTaskStatus(taskId, onProgress, onComplete, onError): it calls
\* checkStatus(), which runs up to its await, and returns the handle
pollTaskStatus ==
    /\ phase = "idle"
    /\ isCancelled' = FALSE
    /\ phase' = "inflight"
    /\ queries' = queries + 1
    /\ UNCHANGED <<calls, responses, cancelCalls, callsAtCancel,
                   queriesAtCancel, apiVars, pairVars, toasts>>

\* mutant of TimerFires: the timer is periodic and also fires while a query
\* is in flight
TimerFiresWhileInFlight ==
    /\ phase \in {"timer", "inflight"}
    /\ isCancelled \/ queries < MaxPolls
    /\ checkStatusEnter
    /\ UNCHANGED <<isCancelled, calls, responses, cancelCalls, callsAtCancel,
                   queriesAtCancel, apiVars, pairVars, toasts>>

\* the timer set by setTimeout(checkStatus, 1000) fires
TimerFires ==
    /\ phase = "timer"
    /\ isCancelled \/ queries < MaxPolls
    /\ checkStatusEnter
    /\ UNCHANGED <<isCancelled, calls, responses, cancelCalls, callsAtCancel,
                   queriesAtCancel, apiVars, pairVars, toasts>>

\* the awaited checkTaskStatus settles and checkStatus runs to its end;
\* b1 is the behaviour of the callback invoked in the try block, b2 that of
\* onError invoked in the catch block
checkStatusResumes(resp, b1, b2) ==
    /\ phase = "inflight"
    /\ LET o == checkTaskStatus(resp)
           t == checkStatusTry(o, b1)
           cancels1 == t.calls # <<>> /\ b1.cancels
           c == checkStatusCatch(t.thrown, isCancelled \/ cancels1, b2)
           cancels2 == c # <<>> /\ b2.cancels
           n == (IF cancels1 THEN 1 ELSE 0) + (IF cancels2 THEN 1 ELSE 0)
       IN
         /\ cancelCalls + n <= MaxCancels
         /\ calls' = calls \o t.calls \o c
         /\ responses' = Append(responses, [o EXCEPT !.toasts = <<>>])
         /\ toasts' = toasts \o Tagged(0, o.toasts)
         /\ isCancelled' = (isCancelled \/ cancels1 \/ cancels2)
         /\ cancelCalls' = cancelCalls + n
         /\ callsAtCancel' =
              IF callsAtCancel # -1 THEN callsAtCancel
              ELSE IF cancels1 THEN Len(calls) + 1
              ELSE IF cancels2 THEN Len(calls) + Len(t.calls) + 1
              ELSE -1
         /\ queriesAtCancel' =
              IF queriesAtCancel # -1 THEN queriesAtCancel
              ELSE IF cancels1 \/ cancels2 THEN queries
              ELSE -1
         /\ phase' = IF t.schedule THEN "timer" ELSE "done"
    /\ UNCHANGED <<queries, apiVars, pairVars>>

\* mutant of Cancel: the handle toggles the flag
CancelToggles ==
    /\ phase # "idle"
    /\ cancelCalls < MaxCancels
    /\ isCancelled' = ~isCancelled
    /\ cancelCalls' = cancelCalls + 1
    /\ callsAtCancel' = IF callsAtCancel = -1 THEN Len(calls) ELSE callsAtCancel
    /\ queriesAtCancel' = IF queriesAtCancel = -1 THEN queries
                          ELSE queriesAtCancel
    /\ UNCHANGED <<phase, queries, calls, responses, apiVars, pairVars, toasts>>

\* the caller invokes the handle returned by pollTaskStatus
Cancel ==
    /\ phase # "idle"
    /\ cancelCalls < MaxCancels
    /\ isCancelled' = TRUE
    /\ cancelCalls' = cancelCalls + 1
    /\ callsAtCancel' = IF callsAtCancel = -1 THEN Len(calls) ELSE callsAtCancel
    /\ queriesAtCancel' = IF queriesAtCancel = -1 THEN queries
                          ELSE queriesAtCancel
    /\ UNCHANGED <<phase, queries, calls, responses, apiVars, pairVars, toasts>>

Init == InitCommon

Next ==
    \/ pollTaskStatus
    \/ TimerFires
    \/ \E resp \in TaskResponses, b1, b2 \in CallbackBehaviours :
          checkStatusResumes(resp, b1, b2)
    \/ Cancel

Spec == Init /\ [][Next]_vars

(***************************************************************************)
(* Properties of the polling loop (checked under Spec)                     *)
(***************************************************************************)
Terminal == {"onComplete", "onError"}

Count(cbs) == Cardinality({i \in 1..Len(calls) : calls[i].cb \in cbs})

Cancelled == callsAtCancel # -1

NoCallbackThrew == \A i \in 1..Len(calls) : ~calls[i].threw

IsProgress(o) ==
    /\ o.settle = "resolve"
    /\ o.kind = "object"
    /\ o.obj.status \notin {<<"completed">>, <<"error">>}

IsCompleted(o) ==
    o.settle = "resolve" /\ o.kind = "object" /\ o.obj.status = <<"completed">>

IsTaskError(o) ==
    o.settle = "resolve" /\ o.kind = "object" /\ o.obj.status = <<"error">>

Last(seq) == seq[Len(seq)]

\* C1: once the cancellation handle has been invoked, no callback
\* (onProgress, onComplete, onError) is invoked afterward, also when the
\* handle is invoked while a status query is in flight.
C1_NoCallbackAfterCancel ==
    Cancelled => Len(calls) <= callsAtCancel

\* C2: once onComplete or onError has been invoked, no further callback of
\* any kind fires and no status query is pending or issued: a terminal
\* callback is the last invocation of the sequence, and the chain is over.
C2_TerminalCallbackIsLast ==
    \A i \in 1..Len(calls) :
        calls[i].cb \in Terminal => (i = Len(calls) /\ phase = "done")

\* C3: without cancellation, when the status queries returned n non-terminal
\* statuses and then 'completed', onProgress was invoked exactly n times, in
\* response order with the corresponding records, then onComplete exactly
\* once with the 'completed' record, onError never, and n+1 queries were
\* issued in total.
C3_ProgressThenComplete ==
    ( /\ ~Cancelled
      /\ responses # <<>>
      /\ IsCompleted(Last(responses))
      /\ \A i \in 1..(Len(responses) - 1) : IsProgress(responses[i]) )
    => ( /\ Len(calls) = Len(responses)
         /\ \A i \in 1..(Len(calls) - 1) :
               calls[i].cb = "onProgress" /\ calls[i].obj = responses[i].obj
         /\ Last(calls).cb = "onComplete"
         /\ Last(calls).obj = Last(responses).obj
         /\ Count({"onError"}) = 0
         /\ queries = Len(responses)
         /\ phase = "done" )

\* C4: when a status query returns a record with status 'error', onError is
\* invoked exactly once, with the record's error field as message when it is
\* present and non-empty and 'Task failed' otherwise; onComplete is not
\* invoked and no further status query is issued.
C4_TaskErrorReportedOnce ==
    (responses # <<>> /\ IsTaskError(Last(responses)))
    => ( /\ Count({"onError"}) = 1
         /\ Count({"onComplete"}) = 0
         /\ calls # <<>>
         /\ Last(calls).cb = "onError"
         /\ Last(calls).err.message =
               ( IF Last(responses).obj.error \in {Undefined, <<>>}
                 THEN <<"Task", "failed">>
                 ELSE Last(responses).obj.error )
         /\ queries = Len(responses)
         /\ phase = "done" )

\* With callbacks that return normally, a terminal callback is the last
\* invocation, n progress responses and 'completed' give n onProgress and
\* one onComplete, and a task error is reported exactly once.
WithoutThrow_TerminalCallbackIsLast ==
    NoCallbackThrew => C2_TerminalCallbackIsLast

WithoutThrow_ProgressThenComplete ==
    NoCallbackThrew => C3_ProgressThenComplete

WithoutThrow_TaskErrorReportedOnce ==
    NoCallbackThrew => C4_TaskErrorReportedOnce

\* the handle was first invoked after the first query resolved with a
\* non-terminal status (onProgress delivered and returned, next poll
\* scheduled) and before the second poll fired
CancelledBetweenFirstAndSecondPoll ==
    /\ callsAtCancel = 1
    /\ queriesAtCancel = 1
    /\ calls[1].cb = "onProgress"
    /\ ~calls[1].threw

\* C5: if the handle is invoked after the first poll delivered onProgress and
\* before the scheduled second poll fires, no callback fires again and no
\* further status query is issued.
C5_CancelBeforeSecondPoll ==
    CancelledBetweenFirstAndSecondPoll => (Len(calls) = 1 /\ queries = 1)

C5_Witness ==
    CancelledBetweenFirstAndSecondPoll /\ phase = "done"

\* C6: invoking the cancellation handle again, once it has been invoked,
\* changes nothing of the polling sequence (flag, pending timer or query,
\* callbacks fired, queries issued): two invocations leave the state one
\* invocation leaves.
C6_CancelIdempotent ==
    [][(Cancel /\ isCancelled) =>
          UNCHANGED <<isCancelled, phase, queries, calls, responses,
                      callsAtCancel, queriesAtCancel, toasts>>]_vars

C6_Witness == cancelCalls >= 2 /\ isCancelled /\ phase = "inflight"

(***************************************************************************)
(* Properties of the api operations (checked under SpecApi)                *)
(***************************************************************************)
Uploads == {"uploadVideo", "uploadAudio"}

ToastsOf(id) == {i \in 1..Len(toasts) : toasts[i].call = id}

\* the last call was answered by a non-2xx response
AnsweredNon2xx == settled.op # "none" /\ ~settled.resp.rejected /\ ~ok(settled.resp)

\* C7: for uploadVideo, uploadAudio and checkTaskStatus, a non-2xx response
\* whose body is JSON with a non-empty error field "X" makes the operation
\* fail with an error whose message equals "X".
C7_ServerErrorMessageKept ==
    ( /\ AnsweredNon2xx
      /\ settled.resp.body.kind = "object"
      /\ settled.resp.body.obj.error \notin {Undefined, <<>>} )
    => ( /\ settled.outcome.settle = "reject"
         /\ settled.outcome.err.message = settled.resp.body.obj.error )

\* C8: for uploadVideo, uploadAudio and checkTaskStatus, a non-2xx response
\* whose body is empty or not JSON makes the operation fail with an error
\* whose message contains the status code and the reason phrase; the JSON
\* decode failure is never the error that reaches the caller.
C8_UndecodableBodyFallsBack ==
    (AnsweredNon2xx /\ settled.resp.body.kind \in {"empty", "html"})
    => ( /\ settled.outcome.settle = "reject"
         /\ settled.outcome.err.name # "SyntaxError"
         /\ Contains(settled.outcome.err.message,
                     <<ToString(settled.resp.status)>>)
         /\ Contains(settled.outcome.err.message, settled.resp.statusText) )

\* C9: an upload that fails for any reason has emitted exactly one toast,
\* whose description is the message of the error it rejects with, by the
\* time it rejects; an upload that resolves has emitted none.
C9_FailedUploadToastsOnce ==
    settled.op \in Uploads =>
        IF settled.outcome.settle = "reject"
        THEN /\ Cardinality(ToastsOf(settled.id)) = 1
             /\ \A i \in ToastsOf(settled.id) :
                   toasts[i].toast.description = settled.outcome.err.message
        ELSE ToastsOf(settled.id) = {}

\* an upload failed on a response it could not decode, and toasted
C9_Witness ==
    /\ settled.op \in Uploads
    /\ settled.outcome.settle = "reject"
    /\ settled.outcome.err.name = "SyntaxError"
    /\ ToastsOf(settled.id) # {}

\* C10: an upload answered by a 2xx response whose JSON body is
\* {task_id, status} resolves with exactly those field values and emits no
\* toast.
C10_UploadResultUnchanged ==
    ( /\ settled.op \in Uploads
      /\ ~settled.resp.rejected
      /\ ok(settled.resp)
      /\ settled.resp.body.kind = "object" )
    => ( /\ settled.outcome.settle = "resolve"
         /\ settled.outcome.kind = "object"
         /\ settled.outcome.obj.task_id = settled.resp.body.obj.task_id
         /\ settled.outcome.obj.status = settled.resp.body.obj.status
         /\ ToastsOf(settled.id) = {} )

\* the second upload succeeded with a task identifier after the first failed
C10_Witness ==
    /\ settled.op \in Uploads
    /\ settled.id = 2
    /\ ok(settled.resp)
    /\ settled.resp.body.kind = "object"
    /\ settled.outcome.obj.task_id = <<"t1">>
    /\ settled.outcome.obj.status = <<"queued">>
    /\ toasts # <<>>

(***************************************************************************)
(* Further properties of the polling loop (checked under Spec)             *)
(***************************************************************************)
\* status queries issued and not yet settled
Outstanding == queries - Len(responses)

\* C11: at most one status query is outstanding at any time, and a new query
\* is issued only when the previous one has settled and the scheduled delay
\* has fired (or on entry).
C11_OneOutstandingQuery ==
    /\ [](Outstanding \in {0, 1} /\ (Outstanding = 1 <=> phase = "inflight"))
    /\ [][queries' # queries =>
            ( /\ queries' = queries + 1
              /\ Outstanding = 0
              /\ phase \in {"idle", "timer"} )]_vars

C11_Witness == queries = 2 /\ Len(responses) = 1 /\ phase = "inflight"


\* C13: checkTaskStatus emits no toast notification, whether it resolves or
\* rejects: however the status queries of a polling sequence settle, no
\* toast is emitted, and a failure is reported through onError alone.
C13_StatusQueryNeverToasts == toasts = <<>>

\* a query resolved, the next one failed, and the failure went to onError
C13_Witness ==
    /\ Len(responses) >= 2
    /\ responses[1].settle = "resolve"
    /\ Last(responses).settle = "reject"
    /\ calls # <<>>
    /\ Last(calls).cb = "onError"
    /\ Last(calls).err = Last(responses).err


\* C14: in a sequence that is not cancelled, when a status query rejects,
\* onError is invoked exactly once, with the failure itself when it is an
\* Error and a new Error 'Failed to check task status' otherwise; no other
\* callback fires for that query, onComplete never does, and no further
\* status query is issued.
C14_QueryFailureReportedOnce ==
    (~Cancelled /\ responses # <<>> /\ Last(responses).settle = "reject")
    => ( /\ Len(calls) = Len(responses)
         /\ \A i \in 1..(Len(calls) - 1) : calls[i].cb = "onProgress"
         /\ Last(calls).cb = "onError"
         /\ Last(calls).err =
               ( IF Last(responses).err.isError
                 THEN Last(responses).err
                 ELSE Err(<<"Failed", "to", "check", "task", "status">>) )
         /\ Count(Terminal) = 1
         /\ queries = Len(responses)
         /\ phase = "done" )

\* the second query failed in transport and onError, which got the
\* TypeError of fetch, itself threw
C14_Witness ==
    /\ ~Cancelled
    /\ Len(responses) = 2
    /\ Last(responses).err = FetchFailed
    /\ Last(calls).cb = "onError"
    /\ Last(calls).threw


\* C15: after the cancellation handle has been invoked, no new status query
\* is issued: the number of queries issued stays what it was at the moment
\* of cancellation, whether a query was in flight or a timer pending then.
C15_NoQueryAfterCancel ==
    Cancelled => queries = queriesAtCancel

\* cancelled while the first query was in flight; its non-terminal result
\* set a timer, which fired without issuing a query
C15_Witness ==
    /\ queriesAtCancel = 1
    /\ callsAtCancel = 0
    /\ Len(responses) = 1
    /\ IsProgress(responses[1])
    /\ phase = "done"

\* C16: cancellation is never reported as a failure: onError is not invoked
\* at any point after the cancellation handle has been invoked, whether the
\* query in flight then rejects or resolves.
C16_NoErrorAfterCancel ==
    Cancelled =>
        \A i \in (callsAtCancel + 1)..Len(calls) : calls[i].cb # "onError"

\* C18: pollTaskStatus issues its first status query on entry, before the
\* handle is returned: a started sequence has issued at least one query,
\* also at the moment the handle is first invoked.
C18_FirstQueryOnEntry ==
    /\ phase # "idle" => queries >= 1
    /\ Cancelled => queriesAtCancel >= 1

\* the handle was invoked as soon as it was returned
C18_Witness ==
    /\ callsAtCancel = 0
    /\ queriesAtCancel = 1
    /\ responses = <<>>
    /\ phase = "inflight"

\* C19: onComplete and onError are mutually exclusive and at most one
\* terminal callback invocation occurs in a polling sequence, also when a
\* caller-supplied callback throws.
C19_AtMostOneTerminalCallback == Count(Terminal) <= 1

\* C20: after the cancellation handle has been invoked, at most one callback
\* invocation (onProgress, onComplete or onError) is made from then on.
C20_AtMostOneCallbackAfterCancel ==
    Cancelled => Len(calls) - callsAtCancel <= 1

\* cancelled while a query was in flight; it resolved 'completed',
\* onComplete was invoked and threw, and nothing followed
C20_Witness ==
    /\ Cancelled
    /\ Len(calls) = callsAtCancel + 1
    /\ Last(calls).cb = "onComplete"
    /\ Last(calls).threw
    /\ phase = "done"


(***************************************************************************)
(* Liveness of the polling loop: no cancellation, timers fire, queries     *)
(* settle, and the server answers the last query the bound allows with a   *)
(* terminal status or a failure                                            *)
(***************************************************************************)
\* a status query settles in a sequence nobody cancels
checkStatusResumesUncancelled ==
    \E resp \in TaskResponses, b1, b2 \in CallbackBehaviours :
        /\ ~b1.cancels
        /\ ~b2.cancels
        /\ queries < MaxPolls \/ ~IsProgress(checkTaskStatus(resp))
        /\ checkStatusResumes(resp, b1, b2)

NextLive ==
    \/ pollTaskStatus
    \/ TimerFires
    \/ checkStatusResumesUncancelled

SpecLive ==
    /\ Init
    /\ [][NextLive]_vars
    /\ WF_vars(TimerFires)
    /\ WF_vars(checkStatusResumesUncancelled)

\* C17: without cancellation, when the server eventually answers a status
\* query with a terminal status or a failure, a started polling sequence
\* eventually invokes onComplete or onError, and a non-terminal response
\* whose timer is set is followed by another query.
C17_EventuallyTerminalCallback ==
    /\ (phase # "idle") ~> (Count(Terminal) >= 1)
    /\ (phase = "timer") ~> (phase = "inflight")

\* the terminal callback came with the last query the bound allows
C17_Witness ==
    /\ queries = MaxPolls
    /\ Len(responses) = MaxPolls
    /\ Count(Terminal) >= 1
    /\ phase = "done"


(***************************************************************************)
(* Two polling sequences started by separate pollTaskStatus calls: each    *)
(* call has its own isCancelled and its own checkStatus chain              *)
(***************************************************************************)
MaxPairPolls == 2

Names(invocations) ==
    [i \in 1..Len(invocations) |-> invocations[i].cb]

\* pollTaskStatus called for sequence s: the first query is issued
pollTaskStatusOf(s) ==
    /\ seqs[s].phase = "idle"
    /\ seqs' = [seqs EXCEPT ![s] =
                  [@ EXCEPT !.isCancelled = FALSE, !.phase = "inflight",
                            !.queries = @ + 1]]
    /\ actor' = s
    /\ UNCHANGED <<pollVars, apiVars, toasts>>

\* the timer of sequence s fires: the top of its checkStatus
TimerFiresOf(s) ==
    /\ seqs[s].phase = "timer"
    /\ seqs[s].isCancelled \/ seqs[s].queries < MaxPairPolls
    /\ seqs' = [seqs EXCEPT ![s] =
                  IF @.isCancelled
                  THEN [@ EXCEPT !.phase = "done"]
                  ELSE [@ EXCEPT !.phase = "inflight", !.queries = @ + 1]]
    /\ actor' = s
    /\ UNCHANGED <<pollVars, apiVars, toasts>>

\* the query of sequence s settles and its checkStatus runs to its end; a
\* callback of s may invoke the handle of s
checkStatusResumesOf(s, resp, b1, b2) ==
    /\ seqs[s].phase = "inflight"
    /\ LET o == checkTaskStatus(resp)
           t == checkStatusTry(o, b1)
           cancels1 == t.calls # <<>> /\ b1.cancels
           c == checkStatusCatch(t.thrown, seqs[s].isCancelled \/ cancels1, b2)
           cancels2 == c # <<>> /\ b2.cancels
       IN
         /\ seqs' = [seqs EXCEPT ![s] =
                       [@ EXCEPT
                          !.calls = @ \o Names(t.calls \o c),
                          !.isCancelled = (@ \/ cancels1 \/ cancels2),
                          !.handleInvoked = (@ \/ cancels1 \/ cancels2),
                          !.phase = IF t.schedule THEN "timer" ELSE "done"]]
         /\ toasts' = toasts \o Tagged(0, o.toasts)
    /\ actor' = s
    /\ UNCHANGED <<pollVars, apiVars>>

\* mutant of CancelOf: the flag is one variable shared by all sequences
CancelAll(s) ==
    /\ seqs[s].phase # "idle"
    /\ seqs' = [t \in Seqs |->
                  IF t = s
                  THEN [seqs[t] EXCEPT !.isCancelled = TRUE,
                                       !.handleInvoked = TRUE]
                  ELSE [seqs[t] EXCEPT !.isCancelled = TRUE]]
    /\ actor' = s
    /\ UNCHANGED <<pollVars, apiVars, toasts>>

\* the caller invokes the handle of sequence s
CancelOf(s) ==
    /\ seqs[s].phase # "idle"
    /\ seqs' = [seqs EXCEPT ![s] =
                  [@ EXCEPT !.isCancelled = TRUE, !.handleInvoked = TRUE]]
    /\ actor' = s
    /\ UNCHANGED <<pollVars, apiVars, toasts>>

NextPair ==
    \E s \in Seqs :
        \/ pollTaskStatusOf(s)
        \/ TimerFiresOf(s)
        \/ \E resp \in TaskResponses, b1, b2 \in CallbackBehaviours :
              checkStatusResumesOf(s, resp, b1, b2)
        \/ CancelOf(s)

SpecPair == Init /\ [][NextPair]_vars

\* C12: two polling sequences are independent: a step of one (cancelling,
\* completing, failing, polling) leaves the other's flag, pending timer,
\* query in flight and callbacks as they were, and a sequence is cancelled
\* only by its own handle.
C12_SequencesIndependent ==
    /\ [](\A s \in Seqs : seqs[s].isCancelled <=> seqs[s].handleInvoked)
    /\ [][\A s \in Seqs : actor' # s => seqs'[s] = seqs[s]]_vars

\* sequence 1 was cancelled before any callback; sequence 2 went on to
\* deliver onProgress and onComplete
C12_Witness ==
    /\ seqs[1].isCancelled
    /\ seqs[1].calls = <<>>
    /\ seqs[1].phase = "done"
    /\ ~seqs[2].isCancelled
    /\ seqs[2].calls = <<"onProgress", "onComplete">>

====
